---- MODULE Spec2Model ----
(***************************************************************************)
(* Replicated log: the master (src/master/app.py) and its secondaries      *)
(* (src/secondary/app.py).                                                 *)
(*                                                                         *)
(* The master handles every POST /messages on a thread of its own: it      *)
(* validates the request, takes a sequence number under SEQ_LOCK, appends  *)
(* to MESSAGES, and replicates to the secondaries that were not UNHEALTHY  *)
(* when the request was validated: fire-and-forget threads for w = 1, a    *)
(* thread pool whose results it collects for w > 1.  A heartbeat thread    *)
(* and the replication calls both update SECONDARY_STATUS.  A secondary    *)
(* stores what /replicate hands it, once per seq, and serves the gap-free  *)
(* run that starts at its lowest seq.                                      *)
(*                                                                         *)
(* Whether a secondary is reachable is no state of the program: every      *)
(* network call either reaches the secondary or fails, whichever the       *)
(* network and the secondary's process allow at that moment.               *)
(***************************************************************************)
EXTENDS Integers, Sequences, FiniteSets, TLC

\* ------------------------------------------------------------- bounds
NumSecondaries == 2     \* entries of the SECONDARIES environment variable
MaxWrites == 2          \* POST /messages requests, each on its own thread
MaxFailures == 2        \* cap on a secondary's consecutive-failure counter
CfgSuspectThresh == 1   \* SUSPECTED_THRESHOLD of the deployment modelled
CfgUnhealthyThresh == 2 \* UNHEALTHY_THRESHOLD of the deployment modelled
MaxDirect == 3          \* direct client calls of a secondary's /replicate
MaxDirectSeq == 2       \* largest seq a direct client call carries
MaxGapSeq == 5          \* largest seq of the calls that fill a secondary in any order
MaxThresh == 3          \* largest threshold a deployment is configured with
MaxObservedFailures == 5 \* cap on the failure counter where probes are observed

\* ---------------------------------------------------------- constants
NoThread == 0           \* a lock nobody holds
NoSeq == 0              \* a request that has no sequence number yet
NoCode == 0             \* a request that has not been answered
Created == 201
Ok == 200
BadRequest == 400
InternalError == 500
BadGateway == 502

SECONDARIES == 1..NumSecondaries
Threads == 1..MaxWrites
NotAString == "<not a string>"
\* The payload the client of thread t posts: payloads are opaque to the code.
ClientMsg(t) == "msg" \o ToString(t)
Msgs == {ClientMsg(t) : t \in Threads}
NoW == -1               \* the request body has no "w"
WInputs == {NoW} \cup (0..(NumSecondaries + 2))
\* What a direct client call of /replicate carries; seq 0 is what the
\* handler takes for a body without "seq".
DirectSeqs == 0..MaxDirectSeq
DirectMsgs == Msgs \cup {NotAString}

HEALTHY == "healthy"
SUSPECTED == "suspected"
UNHEALTHY == "unhealthy"

VARIABLES
    MESSAGES,           \* master: list of <<seq, msg>> in append order
    SEQ_COUNTER,        \* master: last sequence number handed out
    SEQ_LOCK,           \* master: the thread inside "with SEQ_LOCK", or NoThread
    STATUS_LOCK,        \* master: the thread inside "with STATUS_LOCK", or NoThread
    SECONDARY_STATUS,   \* master: secondary -> [status, failures]
    SUSPECT_THRESH,     \* master configuration
    UNHEALTHY_THRESH,   \* master configuration
    req,                \* master: thread -> the POST /messages it handles
    SEC_MESSAGES,       \* secondary -> its list of <<seq, msg>>
    direct,             \* direct /replicate calls that have been received
    replies,            \* the answers to the direct calls, in processing order
    probe               \* the last validation or heartbeat observed on its own

vars == <<MESSAGES, SEQ_COUNTER, SEQ_LOCK, STATUS_LOCK, SECONDARY_STATUS,
          SUSPECT_THRESH, UNHEALTHY_THRESH, req, SEC_MESSAGES,
          direct, replies, probe>>

masterVars == <<MESSAGES, SEQ_COUNTER, SEQ_LOCK, STATUS_LOCK, SECONDARY_STATUS,
                SUSPECT_THRESH, UNHEALTHY_THRESH, req>>

\* ------------------------------------------------------------ helpers
Range(f) == {f[i] : i \in DOMAIN f}

\* The payloads of a list of <<seq, msg>>.
Payloads(log) == [i \in 1..Len(log) |-> log[i][2]]

IsPrefix(p, l) == Len(p) <= Len(l) /\ \A i \in 1..Len(p) : p[i] = l[i]

\* sorted(log, key=lambda x: x[0]): a stable insertion sort.
RECURSIVE InsertSorted(_, _)
InsertSorted(sorted, e) ==
    IF sorted = <<>> THEN <<e>>
    ELSE IF Head(sorted)[1] <= e[1]
         THEN <<Head(sorted)>> \o InsertSorted(Tail(sorted), e)
         ELSE <<e>> \o sorted

RECURSIVE SortBySeq(_)
SortBySeq(log) ==
    IF log = <<>> THEN <<>>
    ELSE InsertSorted(SortBySeq(SubSeq(log, 1, Len(log) - 1)), log[Len(log)])

\* ------------------------------------------------------------- master
\* Master GET /messages.
master_list_messages_unsorted(log) == Payloads(log)
master_list_messages_replicated(log) ==
    Payloads(SelectSeq(SortBySeq(log),
                       LAMBDA e : \E s \in SECONDARIES : e \in Range(SEC_MESSAGES[s])))
master_list_messages(log) == Payloads(SortBySeq(log))

\* SEQ_COUNTER += 1
NextSeqLostUpdate(counter) == IF counter = 0 THEN 1 ELSE counter
NextSeq(counter) == counter + 1

\* Leaving "with SEQ_LOCK" / "with STATUS_LOCK".
ReleaseSeqLockNever(t) == t
ReleaseSeqLock(t) == NoThread
ReleaseStatusLockNever(t) == t
ReleaseStatusLock(t) == NoThread

InitialStatus == [status |-> HEALTHY, failures |-> 0]

\* update_secondary_status, the failure branch (lines 91-108): the status
\* after a failure that brought the counter to failures.
status_after_failure_strict(old, failures, S, U) ==
    IF old = HEALTHY
    THEN (IF failures > S THEN SUSPECTED ELSE HEALTHY)
    ELSE IF old = SUSPECTED
    THEN (IF failures > U THEN UNHEALTHY ELSE SUSPECTED)
    ELSE UNHEALTHY
status_after_failure_by_counter(old, failures, S, U) ==
    IF failures >= U THEN UNHEALTHY
    ELSE IF failures >= S THEN SUSPECTED ELSE HEALTHY
status_after_failure(old, failures, S, U) ==
    IF old = HEALTHY
    THEN (IF failures >= S THEN SUSPECTED ELSE HEALTHY)
    ELSE IF old = SUSPECTED
    THEN (IF failures >= U THEN UNHEALTHY
          ELSE IF failures < S THEN HEALTHY ELSE SUSPECTED)
    ELSE (IF failures < S THEN HEALTHY
          ELSE IF failures < U THEN SUSPECTED ELSE UNHEALTHY)

\* update_secondary_status, on one secondary's record.
update_secondary_status_gradual(info, is_healthy, S, U) ==
    IF is_healthy
    THEN [status |-> IF info.status = UNHEALTHY THEN SUSPECTED ELSE HEALTHY,
          failures |-> 0]
    ELSE [failures |-> info.failures + 1,
          status |-> status_after_failure(info.status, info.failures + 1, S, U)]
update_secondary_status(info, is_healthy, S, U) ==
    IF is_healthy
    THEN [status |-> HEALTHY, failures |-> 0]
    ELSE LET failures == info.failures + 1
             old == info.status
         IN [failures |-> failures,
             status |-> status_after_failure(old, failures, S, U)]

\* The failure counter is capped: a failure is recorded only below the cap.
CanRecordUpTo(s, is_healthy, cap) == is_healthy \/ SECONDARY_STATUS[s].failures < cap
CanRecord(s, is_healthy) == CanRecordUpTo(s, is_healthy, MaxFailures)

Updated(s, is_healthy) ==
    [SECONDARY_STATUS EXCEPT ![s] =
        update_secondary_status(@, is_healthy, SUSPECT_THRESH, UNHEALTHY_THRESH)]

\* The secondaries POST /messages counts and addresses.
AvailableSecondaries(status) == {s \in SECONDARIES : status[s].status # UNHEALTHY}

RequiredAcks(w) == w - 1

\* len(acks) >= required_acks
WriteConcernSatisfiedOffByOne(acks, required_acks) == Len(acks) >= required_acks - 1
WriteConcernSatisfied(acks, required_acks) == Len(acks) >= required_acks

\* The write-concern validation (lines 148-155): the w the request is
\* handled with, or a rejection.
ValidateWriteConcern(w_in, available) ==
    LET max_w == Cardinality(available) + 1
    IN IF w_in = NoW THEN [ok |-> TRUE, w |-> max_w]
       ELSE IF w_in < 1 \/ w_in > max_w THEN [ok |-> FALSE, w |-> w_in]
       ELSE [ok |-> TRUE, w |-> w_in]

\* Nothing has been observed.
NoProbe == [kind |-> "none"]

IdleRequest ==
    [pc |-> "idle", msg |-> NotAString, w |-> 0, seq |-> NoSeq,
     avail |-> {}, task |-> [s \in SECONDARIES |-> "none"],
     acks |-> <<>>, code |-> NoCode]

\* ---------------------------------------------------------- secondary
\* any(seq_num == seq for seq_num, _ in MESSAGES)
HasSeqLastOnly(log, seq) == log # <<>> /\ log[Len(log)][1] = seq
HasSeq(log, seq) == \E i \in 1..Len(log) : log[i][1] = seq

\* The insert position: past the leading entries whose seq is smaller.
InsertPosAtEnd(log, seq) == Len(log)
RECURSIVE InsertPos(_, _)
InsertPos(log, seq) ==
    IF log = <<>> \/ Head(log)[1] >= seq THEN 0
    ELSE 1 + InsertPos(Tail(log), seq)

\* MESSAGES.insert(insert_pos, (seq, msg))
InsertAt(log, pos, e) == SubSeq(log, 1, pos) \o <<e>> \o SubSeq(log, pos + 1, Len(log))

\* A handler whose duplicate takes the payload of the latest call.
replicate_overwriting(log, seq, msg) ==
    IF HasSeq(log, seq)
    THEN [log |-> [i \in 1..Len(log) |-> IF log[i][1] = seq THEN <<seq, msg>> ELSE log[i]],
          duplicate |-> TRUE]
    ELSE [log |-> InsertAt(log, InsertPos(log, seq), <<seq, msg>>), duplicate |-> FALSE]

\* The critical section of /replicate: the log it leaves and whether the
\* seq was a duplicate.
replicate(log, seq, msg) ==
    IF HasSeq(log, seq)
    THEN [log |-> log, duplicate |-> TRUE]
    ELSE [log |-> InsertAt(log, InsertPos(log, seq), <<seq, msg>>), duplicate |-> FALSE]

\* The simulated internal error comes after the duplicate's early return.
MaySimulateErrorAlways(duplicate) == TRUE
MaySimulateError(duplicate) == ~duplicate

\* The loop of the secondary's list_messages over the sorted entries.
VisibleRunIgnoringGaps(ordered, expected) == Payloads(ordered)
RECURSIVE VisibleRun(_, _)
VisibleRun(ordered, expected) ==
    IF ordered = <<>> THEN <<>>
    ELSE IF Head(ordered)[1] = expected
         THEN <<Head(ordered)[2]>> \o VisibleRun(Tail(ordered), expected + 1)
    ELSE IF Head(ordered)[1] > expected THEN <<>>
    ELSE VisibleRun(Tail(ordered), expected)

\* Secondary GET /messages.
sec_list_messages(log) ==
    LET ordered == SortBySeq(log)
    IN IF ordered = <<>> THEN <<>> ELSE VisibleRun(ordered, ordered[1][1])

\* --------------------------------------------------------------- Init
\* The state after start-up of a deployment configured with thresholds S, U.
InitWith(S, U) ==
    /\ MESSAGES = <<>>
    /\ SEQ_COUNTER = 0
    /\ SEQ_LOCK = NoThread
    /\ STATUS_LOCK = NoThread
    /\ SECONDARY_STATUS = [s \in SECONDARIES |-> InitialStatus]
    /\ SUSPECT_THRESH = S
    /\ UNHEALTHY_THRESH = U
    /\ req = [t \in Threads |-> IdleRequest]
    /\ SEC_MESSAGES = [s \in SECONDARIES |-> <<>>]
    /\ direct = {}
    /\ replies = <<>>
    /\ probe = NoProbe

Init == InitWith(CfgSuspectThresh, CfgUnhealthyThresh)

\* ------------------------------------------------------ master actions
\* The request is answered with this status code: the handler returns.
AnswerWithoutReturn(r, code) == [r EXCEPT !.code = code]
Answer(r, code) == [r EXCEPT !.pc = "done", !.code = code]

\* POST /messages up to the write-concern validation (lines 133-155).
Receive(t) ==
    /\ req[t].pc = "idle"
    /\ STATUS_LOCK = NoThread
    /\ \E msg \in {ClientMsg(t), NotAString}, w_in \in WInputs :
         IF msg \notin Msgs
         THEN req' = [req EXCEPT ![t] = Answer(@, BadRequest)]
         ELSE LET available == AvailableSecondaries(SECONDARY_STATUS)
                  v == ValidateWriteConcern(w_in, available)
              IN IF v.ok
                 THEN req' = [req EXCEPT ![t].pc = "seq", ![t].msg = msg,
                                         ![t].avail = available, ![t].w = v.w]
                 ELSE req' = [req EXCEPT ![t] = Answer(@, BadRequest)]
    /\ STATUS_LOCK' = ReleaseStatusLock(t)
    /\ UNCHANGED <<MESSAGES, SEQ_COUNTER, SEQ_LOCK, SECONDARY_STATUS, SUSPECT_THRESH,
                   UNHEALTHY_THRESH, SEC_MESSAGES, direct, replies, probe>>

\* with SEQ_LOCK: SEQ_COUNTER += 1; seq = SEQ_COUNTER (lines 161-163).
AssignSeq(t) ==
    /\ req[t].pc = "seq"
    /\ SEQ_LOCK = NoThread
    /\ SEQ_COUNTER' = NextSeq(SEQ_COUNTER)
    /\ req' = [req EXCEPT ![t].seq = SEQ_COUNTER', ![t].pc = "append"]
    /\ SEQ_LOCK' = ReleaseSeqLock(t)
    /\ UNCHANGED <<MESSAGES, STATUS_LOCK, SECONDARY_STATUS, SUSPECT_THRESH,
                   UNHEALTHY_THRESH, SEC_MESSAGES, direct, replies, probe>>

\* MESSAGES.append((seq, msg)) (line 165).
InsertEntryBySeq(log, seq, msg) == InsertSorted(log, <<seq, msg>>)
AppendEntry(log, seq, msg) == Append(log, <<seq, msg>>)

\* The replication work a request starts: a thread per available secondary.
Tasks(r, state) == [s \in SECONDARIES |-> IF s \in r.avail THEN state ELSE "none"]

\* w = 1: MESSAGES.append outside the lock (line 165), one background
\* thread per available secondary, and the answer at once (lines 194-214,
\* 258-260).
WriteAsync(t) ==
    /\ req[t].pc = "append"
    /\ RequiredAcks(req[t].w) = 0
    /\ MESSAGES' = AppendEntry(MESSAGES, req[t].seq, req[t].msg)
    /\ req' = [req EXCEPT ![t] =
                 Answer([@ EXCEPT !.task = Tasks(req[t], "running")], Created)]
    /\ UNCHANGED <<SEQ_COUNTER, SEQ_LOCK, STATUS_LOCK, SECONDARY_STATUS, SUSPECT_THRESH,
                   UNHEALTHY_THRESH, SEC_MESSAGES, direct, replies, probe>>

\* w > 1: MESSAGES.append (line 165) and one future per available
\* secondary (lines 223-225).
WriteSync(t) ==
    /\ req[t].pc = "append"
    /\ RequiredAcks(req[t].w) # 0
    /\ MESSAGES' = AppendEntry(MESSAGES, req[t].seq, req[t].msg)
    /\ req' = [req EXCEPT ![t].pc = "wait", ![t].task = Tasks(req[t], "queued")]
    /\ UNCHANGED <<SEQ_COUNTER, SEQ_LOCK, STATUS_LOCK, SECONDARY_STATUS, SUSPECT_THRESH,
                   UNHEALTHY_THRESH, SEC_MESSAGES, direct, replies, probe>>

\* f.cancel() for every future that is not done: one that no pool thread
\* has taken yet is cancelled, a running one is not.
Cancelled(task) == [s \in SECONDARIES |-> IF task[s] = "queued" THEN "cancelled" ELSE task[s]]

\* A collection that answers only when every future has ended.
CollectAllFutures(r, s, outcome) ==
    LET waiting == r.pc = "wait"
        r1 == [r EXCEPT !.task[s] = outcome,
                        !.acks = IF waiting /\ outcome = "acked" THEN Append(@, s) ELSE @]
    IN IF ~waiting THEN r1
       ELSE IF \E x \in SECONDARIES : r1.task[x] \in {"queued", "running"} THEN r1
       ELSE IF WriteConcernSatisfied(r1.acks, RequiredAcks(r.w))
       THEN Answer(r1, Created)
       ELSE Answer(r1, BadGateway)

\* A collection that gives up at the first failed future.
CollectAbortOnFailure(r, s, outcome) ==
    LET waiting == r.pc = "wait"
        r1 == [r EXCEPT !.task[s] = outcome,
                        !.acks = IF waiting /\ outcome = "acked" THEN Append(@, s) ELSE @]
    IN IF ~waiting THEN r1
       ELSE IF outcome # "acked" THEN Answer(r1, BadGateway)
       ELSE IF WriteConcernSatisfied(r1.acks, RequiredAcks(r.w))
       THEN Answer([r1 EXCEPT !.task = Cancelled(r1.task)], Created)
       ELSE r1

\* A future ends with this outcome. A request still in its as_completed
\* loop takes the result (lines 228-244) and answers when the write concern
\* is met or when no future is left (lines 249-260).
Collect(r, s, outcome) ==
    LET waiting == r.pc = "wait"
        r1 == [r EXCEPT !.task[s] = outcome,
                        !.acks = IF waiting /\ outcome = "acked" THEN Append(@, s) ELSE @]
    IN IF ~waiting THEN r1
       ELSE IF outcome = "acked" /\ WriteConcernSatisfied(r1.acks, RequiredAcks(r.w))
       THEN Answer([r1 EXCEPT !.task = Cancelled(r1.task)], Created)
       ELSE IF \A x \in SECONDARIES : r1.task[x] \notin {"queued", "running"}
       THEN Answer(r1, BadGateway)
       ELSE r1

\* replicate_to_secondary, its status check (lines 176-180): a pool thread
\* takes the future and skips a secondary that is UNHEALTHY by now.
StartReplicate(t, s) ==
    /\ req[t].task[s] = "queued"
    /\ STATUS_LOCK = NoThread
    /\ req' = [req EXCEPT ![t] =
                 IF SECONDARY_STATUS[s].status = UNHEALTHY
                 THEN Collect(@, s, "skipped")
                 ELSE [@ EXCEPT !.task[s] = "running"]]
    /\ STATUS_LOCK' = ReleaseStatusLock(t)
    /\ UNCHANGED <<MESSAGES, SEQ_COUNTER, SEQ_LOCK, SECONDARY_STATUS, SUSPECT_THRESH,
                   UNHEALTHY_THRESH, SEC_MESSAGES, direct, replies, probe>>

\* What a POST /replicate of the master can meet: the secondary does not
\* answer (connection refused, timeout: "unreachable"), or it runs the
\* handler and answers 200 ("acked") or, after it stored a new entry, the
\* simulated 500 ("rejected", secondary/app.py lines 73-75).
CallOutcomes(log, seq) ==
    {"unreachable", "acked"} \cup
    (IF MaySimulateError(replicate(log, seq, "").duplicate) THEN {"rejected"} ELSE {})

\* The secondary's list after the call.
AfterCallNotStored(log, seq, msg, outcome) == log
AfterCallOtherPayload(log, seq, msg, outcome) ==
    IF outcome = "unreachable" THEN log ELSE replicate(log, seq, NotAString).log
AfterCall(log, seq, msg, outcome) ==
    IF outcome = "unreachable" THEN log ELSE replicate(log, seq, msg).log

\* replicate_to_secondary, the call (lines 182-192): raise_for_status makes
\* the secondary's 500 a failure, as is a secondary that does not answer.
SyncSuccess(outcome) == outcome = "acked"

ReplicateToSecondary(t, s) ==
    /\ req[t].task[s] = "running"
    /\ RequiredAcks(req[t].w) # 0
    /\ STATUS_LOCK = NoThread
    /\ \E outcome \in CallOutcomes(SEC_MESSAGES[s], req[t].seq) :
         /\ CanRecord(s, SyncSuccess(outcome))
         /\ SEC_MESSAGES' = [SEC_MESSAGES EXCEPT ![s] =
                               AfterCall(@, req[t].seq, req[t].msg, outcome)]
         /\ SECONDARY_STATUS' = Updated(s, SyncSuccess(outcome))
         /\ req' = [req EXCEPT ![t] = Collect(@, s, outcome)]
    /\ STATUS_LOCK' = ReleaseStatusLock(t)
    /\ UNCHANGED <<MESSAGES, SEQ_COUNTER, SEQ_LOCK, SUSPECT_THRESH, UNHEALTHY_THRESH,
                   direct, replies, probe>>

\* async_replicate (lines 198-206): no raise_for_status, so every answer of
\* the secondary, the 500 included, counts as completed.
AsyncSuccess(outcome) == outcome # "unreachable"

AsyncReplicate(t, s) ==
    /\ req[t].task[s] = "running"
    /\ RequiredAcks(req[t].w) = 0
    /\ STATUS_LOCK = NoThread
    /\ \E outcome \in CallOutcomes(SEC_MESSAGES[s], req[t].seq) :
         /\ CanRecord(s, AsyncSuccess(outcome))
         /\ SEC_MESSAGES' = [SEC_MESSAGES EXCEPT ![s] =
                               AfterCall(@, req[t].seq, req[t].msg, outcome)]
         /\ SECONDARY_STATUS' = Updated(s, AsyncSuccess(outcome))
         /\ req' = [req EXCEPT ![t].task[s] = outcome]
    /\ STATUS_LOCK' = ReleaseStatusLock(t)
    /\ UNCHANGED <<MESSAGES, SEQ_COUNTER, SEQ_LOCK, SUSPECT_THRESH, UNHEALTHY_THRESH,
                   direct, replies, probe>>

\* heartbeat_worker: one probe of its loop (lines 117-119), with the result
\* of check_secondary_health: GET /health succeeds or fails. The loop's
\* position is no state of the model: the probes of one secondary are not
\* ordered with respect to what happens to the others.
HeartbeatStep(s, is_healthy, cap) ==
    /\ STATUS_LOCK = NoThread
    /\ CanRecordUpTo(s, is_healthy, cap)
    /\ SECONDARY_STATUS' = Updated(s, is_healthy)
    /\ STATUS_LOCK' = ReleaseStatusLock(NoThread)
    /\ UNCHANGED <<MESSAGES, SEQ_COUNTER, SEQ_LOCK, SUSPECT_THRESH, UNHEALTHY_THRESH,
                   req, SEC_MESSAGES, direct, replies>>

Heartbeat(s) ==
    \E is_healthy \in BOOLEAN :
        HeartbeatStep(s, is_healthy, MaxFailures) /\ UNCHANGED probe

\* ---------------------------------------- direct calls of /replicate
\* A client other than the master posts to a secondary's /replicate. The
\* handler answers 400 to a msg that is no string (lines 44-47); any other
\* call goes on to the critical section, concurrently with the others.
ClientReplicate(s) ==
    /\ Cardinality(direct) + Len(replies) < MaxDirect
    /\ \E seq \in DirectSeqs, msg \in DirectMsgs :
         LET q == [id |-> Cardinality(direct) + Len(replies) + 1,
                   sec |-> s, seq |-> seq, msg |-> msg]
         IN IF msg = NotAString
            THEN /\ replies' = Append(replies, [id |-> q.id, sec |-> s, seq |-> seq,
                                                msg |-> msg, code |-> BadRequest,
                                                duplicate |-> FALSE])
                 /\ UNCHANGED direct
            ELSE /\ direct' = direct \cup {q}
                 /\ UNCHANGED replies
    /\ UNCHANGED <<masterVars, SEC_MESSAGES, probe>>

\* The critical section of the handler and its answer (lines 56-77).
HandleReplicate(q) ==
    /\ q \in direct
    /\ LET res == replicate(SEC_MESSAGES[q.sec], q.seq, q.msg)
       IN /\ SEC_MESSAGES' = [SEC_MESSAGES EXCEPT ![q.sec] = res.log]
          /\ \E simulated_error \in BOOLEAN :
               /\ simulated_error => MaySimulateError(res.duplicate)
               /\ replies' = Append(replies,
                    [id |-> q.id, sec |-> q.sec, seq |-> q.seq, msg |-> q.msg,
                     code |-> IF simulated_error THEN InternalError ELSE Ok,
                     duplicate |-> res.duplicate])
    /\ direct' = direct \ {q}
    /\ UNCHANGED <<masterVars, probe>>

SecNext ==
    \/ \E s \in SECONDARIES : ClientReplicate(s)
    \/ \E q \in direct : HandleReplicate(q)

\* The secondaries alone, fed by direct client calls.
SecSpec == Init /\ [][SecNext]_vars

Next ==
    \/ \E t \in Threads : Receive(t)
    \/ \E t \in Threads : AssignSeq(t)
    \/ \E t \in Threads : WriteAsync(t)
    \/ \E t \in Threads : WriteSync(t)
    \/ \E t \in Threads, s \in SECONDARIES : StartReplicate(t, s)
    \/ \E t \in Threads, s \in SECONDARIES : ReplicateToSecondary(t, s)
    \/ \E t \in Threads, s \in SECONDARIES : AsyncReplicate(t, s)
    \/ \E s \in SECONDARIES : Heartbeat(s)

Spec == Init /\ [][Next]_vars

\* ------------------------------------------- the validation on its own
\* POST /messages with a string msg, up to the write-concern validation
\* (lines 141-155), with what went in and what came out kept in probe: the w
\* of the body (NoW: none), the secondaries counted, and the verdict.
ValidateRequest ==
    /\ STATUS_LOCK = NoThread
    /\ \E w_in \in WInputs :
         LET available == AvailableSecondaries(SECONDARY_STATUS)
             v == ValidateWriteConcern(w_in, available)
         IN probe' = [kind |-> "validation", w_in |-> w_in, available |-> available,
                      ok |-> v.ok, w |-> v.w]
    /\ UNCHANGED <<masterVars, SEC_MESSAGES, direct, replies>>

ValNext ==
    \/ \E s \in SECONDARIES : Heartbeat(s)
    \/ ValidateRequest

\* The validation of requests under every health state the heartbeat
\* worker brings about.
ValSpec == Init /\ [][ValNext]_vars

\* ------------------------------------- a secondary filled in any order
\* The seqs of the calls and the payload that goes with each seq.
GapSeqs == 0..MaxGapSeq
SeqMsg(seq) == "m" \o ToString(seq)

\* One /replicate call after the other, with seqs in any order: the handler
\* from its critical section on (lines 56-71); what it answers changes no
\* state.
SequentialReplicate(s) ==
    /\ \E seq \in GapSeqs :
         SEC_MESSAGES' = [SEC_MESSAGES EXCEPT ![s] = replicate(@, seq, SeqMsg(seq)).log]
    /\ UNCHANGED <<masterVars, direct, replies, probe>>

GapNext == \E s \in SECONDARIES : SequentialReplicate(s)

\* The secondaries under calls that arrive in any order of seq.
GapSpec == Init /\ [][GapNext]_vars

\* ------------------------------------------ the heartbeat on its own
\* One probe of the heartbeat worker, with what update_secondary_status
\* met and what it left kept in probe.
ObservedHeartbeat(s) ==
    \E is_healthy \in BOOLEAN :
        /\ HeartbeatStep(s, is_healthy, MaxObservedFailures)
        /\ probe' = [kind |-> "heartbeat", sec |-> s, is_healthy |-> is_healthy,
                      before |-> SECONDARY_STATUS[s], after |-> SECONDARY_STATUS'[s]]

\* Every configuration of the two thresholds, SUSPECTED_THRESHOLD and
\* UNHEALTHY_THRESHOLD being independent environment variables.
HealthInit == \E S, U \in 1..MaxThresh : InitWith(S, U)

HealthNext == \E s \in SECONDARIES : ObservedHeartbeat(s)

\* The health records under the heartbeat worker, for every configuration.
HealthSpec == HealthInit /\ [][HealthNext]_vars

\* ------------------------------------------------------------- claims
\* The threads whose request has passed the sequencer.
Sequenced == {t \in Threads : req[t].seq # NoSeq}

\* The threads whose entry is in the master log.
Logged == {t \in Threads : <<req[t].seq, req[t].msg>> \in Range(MESSAGES)}

HasEntry(log, seq, msg) == <<seq, msg>> \in Range(log)

\* The position of x in a list that holds it.
PosIn(list, x) == CHOOSE i \in 1..Len(list) : list[i] = x

\* The seq of the write that carries payload m.
SeqOfMsg(m) == req[CHOOSE t \in Sequenced : req[t].msg = m].seq

\* Nothing of the request of thread t is in flight any more.
DeliveryEnded(t) ==
    /\ req[t].pc = "done"
    /\ \A s \in SECONDARIES : req[t].task[s] \notin {"queued", "running"}

\* C1: under every interleaving of POST /messages, the writes that passed
\* the sequencer hold distinct sequence numbers, these are exactly 1..k, and
\* a write that passes the sequencer gets a number larger than every number
\* handed out before.
C1_MonotonicSequencing ==
    /\ [](/\ \A t, u \in Sequenced : t # u => req[t].seq # req[u].seq
          /\ {req[t].seq : t \in Sequenced} = 1..Cardinality(Sequenced)
          /\ SEQ_COUNTER = Cardinality(Sequenced))
    /\ [][\A t \in Threads :
            (req[t].seq = NoSeq /\ req'[t].seq # NoSeq)
               => \A u \in Sequenced : req'[t].seq > req[u].seq]_vars

\* C1 witness: two writes are in the sequencer's hands at once, and the
\* thread that came second holds the larger number.
C1_Witness ==
    /\ req[2].seq = 1 /\ req[2].pc = "append"
    /\ req[1].seq = 2 /\ req[1].pc = "append"

\* C2 (as claimed): every entry of the master log reaches every peer. Once
\* the master has nothing of a write in flight it never sends that entry
\* again, however reachable the peer is from then on, so by then the peer
\* must hold it.
C2_EventualConsistency_Claimed ==
    \A t \in Logged, P \in SECONDARIES :
        DeliveryEnded(t) => HasEntry(SEC_MESSAGES[P], req[t].seq, req[t].msg)

\* C3 (as claimed): what a secondary serves is a prefix of what the master
\* serves.
C3_PrefixVisibility_Claimed ==
    \A s \in SECONDARIES :
        IsPrefix(sec_list_messages(SEC_MESSAGES[s]), master_list_messages(MESSAGES))

\* C4: two messages that the master and a secondary both serve come in the
\* same order on both, the order of their sequence numbers.
C4_TotalOrder ==
    \A s \in SECONDARIES :
        LET M == master_list_messages(MESSAGES)
            L == sec_list_messages(SEC_MESSAGES[s])
        IN \A m1, m2 \in Range(M) \cap Range(L) :
             (m1 # m2 /\ PosIn(L, m1) < PosIn(L, m2))
                => (PosIn(M, m1) < PosIn(M, m2) /\ SeqOfMsg(m1) < SeqOfMsg(m2))

\* C4 witness: the master appended seq 2 before seq 1, and secondary 1
\* serves both messages.
C4_Witness ==
    /\ Len(MESSAGES) = 2 /\ MESSAGES[1][1] = 2 /\ MESSAGES[2][1] = 1
    /\ Len(sec_list_messages(SEC_MESSAGES[1])) = 2

\* The answered direct calls that went through the critical section.
Handled == {i \in 1..Len(replies) : replies[i].code # BadRequest}

SameTarget(i, j) == replies[i].sec = replies[j].sec /\ replies[i].seq = replies[j].seq

\* C5: a secondary's log holds at most one entry per seq; of the calls that
\* race for one seq, the first to enter the critical section inserts and
\* every other one answers duplicate and inserts nothing.
C5_AtMostOnceApply ==
    /\ \A s \in SECONDARIES : \A i, j \in 1..Len(SEC_MESSAGES[s]) :
          i # j => SEC_MESSAGES[s][i][1] # SEC_MESSAGES[s][j][1]
    /\ \A j \in Handled :
          replies[j].duplicate <=> \E i \in Handled : i < j /\ SameTarget(i, j)
    /\ \A s \in SECONDARIES :
          Len(SEC_MESSAGES[s]) =
             Cardinality({i \in Handled : replies[i].sec = s /\ ~replies[i].duplicate})

\* C5 witness: two calls for one seq were in the handler together; the one
\* that arrived later entered the critical section first and inserted, the
\* other one answered duplicate.
C5_Witness ==
    \E i, j \in Handled :
        /\ i < j /\ SameTarget(i, j)
        /\ replies[i].id > replies[j].id
        /\ ~replies[i].duplicate /\ replies[j].duplicate

\* C6: of the calls that send one (seq, msg) to a secondary, every one
\* after the call that stored it answers 200 with duplicate = true, and the
\* log holds that entry once.
C6_IdempotentReplicate ==
    \A i, j \in Handled :
        (i < j /\ SameTarget(i, j) /\ replies[i].msg = replies[j].msg /\ ~replies[i].duplicate)
           => /\ replies[j].code = Ok
              /\ replies[j].duplicate
              /\ Cardinality({k \in 1..Len(SEC_MESSAGES[replies[i].sec]) :
                    SEC_MESSAGES[replies[i].sec][k][1] = replies[i].seq}) = 1
              /\ HasEntry(SEC_MESSAGES[replies[i].sec], replies[i].seq, replies[i].msg)

\* C6 witness: one (seq, msg) was sent three times; the call that stored it
\* answered the simulated 500, the two after it answered duplicate.
C6_Witness ==
    /\ Len(replies) = 3
    /\ \A i \in 1..3 : replies[i].sec = 1 /\ replies[i].seq = 1 /\ replies[i].msg = ClientMsg(1)
    /\ replies[1].code = InternalError
    /\ replies[2].duplicate /\ replies[3].duplicate

\* C7: a write with w > 1 is answered 201 only with acknowledgements of at
\* least w - 1 distinct secondaries, each of which answered its replication
\* call with success.
C7_AckDistinctness ==
    \A t \in Threads :
        (req[t].code = Created /\ req[t].w > 1)
           => /\ Cardinality(Range(req[t].acks)) >= req[t].w - 1
              /\ Cardinality(Range(req[t].acks)) = Len(req[t].acks)
              /\ \A s \in Range(req[t].acks) : req[t].task[s] = "acked"

\* C7 witness: a write with w = 3 answered 201 with the acknowledgements of
\* both secondaries, secondary 2 first.
C7_Witness ==
    \E t \in Threads : req[t].code = Created /\ req[t].w = 3 /\ req[t].acks = <<2, 1>>

\* C8 (as claimed): once the entry of a write with w = 1 is in the master
\* log the write is answered 201 with no acks, and its replication has been
\* started to every peer.
C8_FastWrite_Claimed ==
    \A t \in Logged :
        req[t].w = 1
           => /\ req[t].code = Created
              /\ req[t].acks = <<>>
              /\ \A s \in SECONDARIES : req[t].task[s] # "none"

\* C9: while a write with w > 1 waits for acknowledgements, every other
\* request can take its next step: be validated, take its sequence number,
\* and, with w = 1, be appended and answered.
C9_NoGlobalWriteLock ==
    \A u, t \in Threads :
        (u # t /\ req[u].pc = "wait")
           => /\ req[t].pc = "idle" => ENABLED Receive(t)
              /\ req[t].pc = "seq" => ENABLED AssignSeq(t)
              /\ (req[t].pc = "append" /\ req[t].w = 1) => ENABLED WriteAsync(t)

\* C9 witness: a write with w = 3 still waits for both secondaries, and a
\* write with w = 1 that took its sequence number after it is answered.
C9_Witness ==
    \E u, t \in Threads :
        /\ req[u].pc = "wait" /\ req[u].w = 3 /\ req[u].acks = <<>>
        /\ req[t].code = Created /\ req[t].w = 1 /\ req[t].seq > req[u].seq

\* C10 (as claimed): a write with w = N is not answered while a peer has
\* not acknowledged; when it is answered, it is with 201 and the
\* acknowledgements of all peers.
C10_BlockingWrite_Claimed ==
    \A t \in Sequenced :
        (req[t].w = NumSecondaries + 1 /\ req[t].pc = "done")
           => (req[t].code = Created /\ Range(req[t].acks) = SECONDARIES)

\* C11 (as claimed): a write with w > 1 that is answered 502 has its
\* sequence number and its entry in the master log, and its replication goes
\* on: a peer that has not acknowledged either holds the entry or still has
\* a delivery of it pending.
C11_DurabilityFailure_Claimed ==
    \A t \in Threads :
        req[t].code = BadGateway
           => /\ req[t].w > 1 /\ req[t].seq # NoSeq
              /\ HasEntry(MESSAGES, req[t].seq, req[t].msg)
              /\ \A s \in SECONDARIES \ Range(req[t].acks) :
                    \/ HasEntry(SEC_MESSAGES[s], req[t].seq, req[t].msg)
                    \/ req[t].task[s] \in {"queued", "running"}

\* The majority of the spec's quorum gate, floor(N/2) + 1 of N = 1 + peers.
QuorumSize == ((NumSecondaries + 1) \div 2) + 1

\* The requests that passed validation: they take, or have taken, a number.
Admitted == {t \in Threads : req[t].pc # "idle" /\ req[t].code # BadRequest}

\* C12 (as claimed): a write is admitted only with a quorum, the master plus
\* the HEALTHY peers. The HEALTHY peers are among the peers that were not
\* UNHEALTHY when the write was validated, so an admitted write has at least
\* a quorum of those.
C12_QuorumGate_Claimed ==
    \A t \in Admitted : 1 + Cardinality(req[t].avail) >= QuorumSize

\* All nodes: the master and every configured secondary.
AllNodes == NumSecondaries + 1

\* C13 (as claimed): a request with an integer w is rejected with 400
\* exactly when w < 1 or w > N, N the number of all nodes, whatever the
\* health of the secondaries.
C13_WriteConcernRange_Claimed ==
    (probe.kind = "validation" /\ probe.w_in # NoW)
       => (~probe.ok <=> (probe.w_in < 1 \/ probe.w_in > AllNodes))

\* C14 (as claimed): a request without w is handled with w = N, the number
\* of all nodes, in every health state of the secondaries.
C14_DefaultWriteConcern_Claimed ==
    (probe.kind = "validation" /\ probe.w_in = NoW) => (probe.ok /\ probe.w = AllNodes)

\* The requests answered 400.
Rejected == {t \in Threads : req[t].code = BadRequest}

\* C15: a request that is rejected with 400 changes no state. The step that
\* rejects it leaves the sequence counter, the master log, the secondaries'
\* logs and the health records as they are, and the rejected request never
\* holds a sequence number, an entry of the log or a replication task. (The
\* code answers no request 503.)
C15_RejectionChangesNothing ==
    /\ [](\A t \in Rejected :
            /\ req[t].seq = NoSeq
            /\ \A s \in SECONDARIES : req[t].task[s] = "none"
            /\ Len(MESSAGES) = Cardinality(Logged \ Rejected))
    /\ [][\A t \in Threads :
            (req[t].code # BadRequest /\ req'[t].code = BadRequest)
               => UNCHANGED <<MESSAGES, SEQ_COUNTER, SECONDARY_STATUS, SEC_MESSAGES>>]_vars

\* C15 witness: one request was rejected while the other one has taken
\* sequence number 1 and is in the log: the rejected one left no trace.
C15_Witness ==
    \E t, u \in Threads :
        /\ t \in Rejected /\ u \in Logged
        /\ req[u].seq = 1 /\ SEQ_COUNTER = 1 /\ Len(MESSAGES) = 1

\* C16: a successful probe of a peer leaves it HEALTHY with 0 failures,
\* whichever of the three states it was in.
C16_HealthRecovery ==
    (probe.kind = "heartbeat" /\ probe.is_healthy)
       => /\ probe.after = [status |-> HEALTHY, failures |-> 0]
          /\ SECONDARY_STATUS[probe.sec] = probe.after

\* C16 witness: a successful probe met a peer that was UNHEALTHY.
C16_Witness ==
    /\ probe.kind = "heartbeat" /\ probe.is_healthy
    /\ probe.before.status = UNHEALTHY
    /\ probe.after.status = HEALTHY

\* HEALTHY < SUSPECTED < UNHEALTHY.
Severity(status) == IF status = HEALTHY THEN 0 ELSE IF status = SUSPECTED THEN 1 ELSE 2

\* C17: every peer starts HEALTHY with 0 failures. A failed probe adds 1 to
\* the counter; then HEALTHY becomes SUSPECTED iff the counter >= S,
\* SUSPECTED becomes UNHEALTHY iff the counter >= U, UNHEALTHY stays, and in
\* no configuration does the peer get healthier.
C17_HealthFailureTransitions ==
    /\ probe.kind = "none" => \A s \in SECONDARIES : SECONDARY_STATUS[s] = InitialStatus
    /\ (probe.kind = "heartbeat" /\ ~probe.is_healthy)
          => LET old == probe.before.status
                 new == probe.after.status
                 failures == probe.after.failures
             IN /\ failures = probe.before.failures + 1
                /\ old = HEALTHY =>
                      new = IF failures >= SUSPECT_THRESH THEN SUSPECTED ELSE HEALTHY
                /\ old = SUSPECTED =>
                      new = IF failures >= UNHEALTHY_THRESH THEN UNHEALTHY ELSE SUSPECTED
                /\ old = UNHEALTHY => new = UNHEALTHY
                /\ Severity(new) >= Severity(old)

\* C17 witness: with S = 3 and U = 2 a failed probe met an UNHEALTHY peer
\* whose counter had passed both thresholds, and left it UNHEALTHY.
C17_Witness ==
    /\ SUSPECT_THRESH = 3 /\ UNHEALTHY_THRESH = 2
    /\ probe.kind = "heartbeat" /\ ~probe.is_healthy
    /\ probe.before.status = UNHEALTHY /\ probe.after.failures = 5

\* The seqs a log holds, and the payload it holds at a seq.
StoredSeqs(log) == {log[i][1] : i \in 1..Len(log)}
PayloadAt(log, seq) == log[CHOOSE i \in 1..Len(log) : log[i][1] = seq][2]

\* The lowest seq of a log that is not empty, and the length of the
\* gap-free run of stored seqs that starts there.
LowestSeq(log) == CHOOSE m \in StoredSeqs(log) : \A x \in StoredSeqs(log) : m <= x
RunLength(log) ==
    CHOOSE n \in 1..Len(log) :
        /\ \A j \in 0..(n - 1) : LowestSeq(log) + j \in StoredSeqs(log)
        /\ LowestSeq(log) + n \notin StoredSeqs(log)

\* C18: whatever a secondary's log holds, GET /messages returns the
\* payloads of seq s0, s0 + 1, ... from the lowest stored seq s0 up to the
\* first missing seq, nothing beyond it, and nothing for an empty log.
C18_GapHidingRead ==
    \A s \in SECONDARIES :
        LET log == SEC_MESSAGES[s]
            visible == sec_list_messages(log)
        IN IF log = <<>> THEN visible = <<>>
           ELSE /\ Len(visible) = RunLength(log)
                /\ \A i \in 1..Len(visible) :
                      visible[i] = PayloadAt(log, LowestSeq(log) + i - 1)

\* C18 witness: secondary 1 holds seq 2, 3 and 5 and serves the payloads of
\* 2 and 3; seq 5, beyond the gap, is hidden.
C18_Witness ==
    /\ StoredSeqs(SEC_MESSAGES[1]) = {2, 3, 5}
    /\ sec_list_messages(SEC_MESSAGES[1]) = <<SeqMsg(2), SeqMsg(3)>>

\* C19 (as claimed): a secondary serves the entry of seq k only if it
\* stores all of seq 1..k; with only seq 3 and 5 stored it serves nothing.
C19_VisibleOnlyFromOne_Claimed ==
    \A s \in SECONDARIES :
        LET log == SEC_MESSAGES[s]
            visible == sec_list_messages(log)
        IN /\ \A k \in StoredSeqs(log) :
                 (k >= 1 /\ PayloadAt(log, k) \in Range(visible))
                    => \A j \in 1..k : j \in StoredSeqs(log)
           /\ StoredSeqs(log) = {3, 5} => visible = <<>>

\* The requests answered 201.
Succeeded == {t \in Threads : req[t].code = Created}

\* C20: from the moment a write is answered 201, with any w, the master's
\* GET /messages contains its message; the list in the 201 response, the
\* master's list at the step that answers, contains it too.
C20_ReadYourWrite ==
    /\ [](\A t \in Succeeded : req[t].msg \in Range(master_list_messages(MESSAGES)))
    /\ [][\A t \in Threads :
            (req[t].code # Created /\ req'[t].code = Created)
               => req'[t].msg \in Range(master_list_messages(MESSAGES'))]_vars

\* C20 witness: a write with w = 1 and a write with w = 3 are both answered
\* 201 and served by the master, while secondary 1 holds only the entry of
\* the w = 3 write.
C20_Witness ==
    \E t, u \in Succeeded :
        /\ req[t].w = 1 /\ req[u].w = 3
        /\ SEC_MESSAGES[1] = <<<<req[u].seq, req[u].msg>>>>
        /\ {req[t].msg, req[u].msg} \subseteq Range(master_list_messages(MESSAGES))

\* C21 (as claimed): every /replicate call with a string msg answers 200,
\* marked duplicate exactly when the seq was already stored; none answers an
\* error once its entry is inserted.
C21_NoErrorAfterInsert_Claimed ==
    \A j \in Handled :
        /\ replies[j].code = Ok
        /\ replies[j].duplicate <=> \E i \in Handled : i < j /\ SameTarget(i, j)

\* C22: whatever the order of the seqs of the /replicate calls, a
\* secondary's list is in strictly ascending order of seq.
C22_SecondaryLogSorted ==
    \A s \in SECONDARIES : \A i, j \in 1..Len(SEC_MESSAGES[s]) :
        i < j => SEC_MESSAGES[s][i][1] < SEC_MESSAGES[s][j][1]

\* C22 witness: secondary 1 handled seq 2, then seq 0, then seq 1, and holds
\* them as 0, 1, 2.
C22_Witness ==
    /\ Len(replies) = 3
    /\ \A i \in 1..3 : replies[i].sec = 1 /\ ~replies[i].duplicate
    /\ replies[1].seq = 2 /\ replies[2].seq = 0 /\ replies[3].seq = 1
    /\ Len(SEC_MESSAGES[1]) = 3
    /\ \A i \in 1..3 : SEC_MESSAGES[1][i][1] = i - 1

\* C23 (as claimed): on every peer the entries of the master are applied in
\* the order of their sequence numbers: the step that stores seq i on a peer
\* finds no larger seq stored there.
C23_InOrderDelivery_Claimed ==
    [][\A P \in SECONDARIES : \A i \in 1..MaxWrites :
          (~HasSeq(SEC_MESSAGES[P], i) /\ HasSeq(SEC_MESSAGES'[P], i))
             => \A j \in 1..MaxWrites : HasSeq(SEC_MESSAGES[P], j) => j < i]_vars

\* C24 (as claimed): the entry of every accepted write is sent to every
\* configured peer: no peer is left out of the targets of the write, and no
\* delivery is skipped, because of the peer's health state.
C24_ReplicateToAll_Claimed ==
    \A t \in Logged : \A s \in SECONDARIES :
        /\ s \in req[t].avail
        /\ req[t].task[s] # "skipped"

\* The one delivery attempt of the entry of thread t to peer s has failed.
AttemptFailed(t, s) ==
    \/ req[t].task[s] = "unreachable"
    \/ req[t].task[s] = "rejected" /\ RequiredAcks(req[t].w) # 0

\* C25 (as claimed): after a failed delivery attempt of an entry to a peer
\* the master can make another attempt of the same entry to the same peer.
C25_RetryUntilAcked_Claimed ==
    \A t \in Threads : \A s \in SECONDARIES :
        AttemptFailed(t, s)
           => ENABLED (\/ StartReplicate(t, s)
                       \/ ReplicateToSecondary(t, s)
                       \/ AsyncReplicate(t, s))

\* The peers whose call for the entry of thread t ended with a 200.
AckedPeers(t) == {s \in SECONDARIES : req[t].task[s] = "acked"}

\* C26: a write with w > 1 that w-1 peers acknowledge is answered 201,
\* whatever happened to the other peers and in whatever order; the step that
\* answers 502 is one that leaves no call of the write queued or running, so
\* no failure of one peer ends a write that the others could still satisfy.
C26_FailureNeverAborts ==
    /\ [](\A t \in Threads :
            (req[t].w > 1 /\ Cardinality(AckedPeers(t)) >= req[t].w - 1)
               => req[t].code = Created)
    /\ [][\A t \in Threads :
            (req[t].code # BadGateway /\ req'[t].code = BadGateway)
               => \A s \in SECONDARIES : req'[t].task[s] \notin {"queued", "running"}]_vars

\* C26 witness: a write with w = 2 is answered 201 on the acknowledgement
\* of secondary 2, its call to secondary 1 having failed.
C26_Witness ==
    \E t \in Threads :
        /\ req[t].w = 2 /\ req[t].code = Created
        /\ req[t].task = <<"unreachable", "acked">>
        /\ req[t].acks = <<2>>

\* C27 (as claimed): taking a sequence number and appending the entry are
\* one step, so under concurrent writers the master log is stored in
\* ascending order of seq and never holds seq j while a smaller seq is
\* missing from it.
C27_AtomicSequenceAppend_Claimed ==
    /\ \A i, j \in 1..Len(MESSAGES) : i < j => MESSAGES[i][1] < MESSAGES[j][1]
    /\ \A j \in 1..Len(MESSAGES) : \A i \in 1..(MESSAGES[j][1] - 1) : HasSeq(MESSAGES, i)

\* C28: every step leaves the master log as it was or extends it at the
\* end: no entry is removed, moved or changed, whatever the operation and
\* whatever the outcome of the write.
C28_AppendOnlyLog == [][IsPrefix(MESSAGES, MESSAGES')]_vars

\* C28 witness: the entry of a write answered 502 is still the first of the
\* master log after a later write appended its own.
C28_Witness ==
    \E t \in Threads :
        /\ req[t].code = BadGateway
        /\ Len(MESSAGES) = 2
        /\ MESSAGES[1] = <<req[t].seq, req[t].msg>>

\* The replication calls that are on the network: the POST is sent and its
\* outcome is not yet known to the master.
InFlight == {<<t, s>> \in Threads \X SECONDARIES : req[t].task[s] = "running"}

C30_PositiveSeqOnly_Claimed ==
    /\ \A i \in 1..Len(replies) : replies[i].seq <= 0 => replies[i].code = BadRequest
    /\ \A s \in SECONDARIES : \A k \in StoredSeqs(SEC_MESSAGES[s]) : k >= 1

\* C31 (as claimed): a step of a write or of one of its replication calls,
\* whatever the call's outcome, leaves every peer's health record as it was:
\* only the probe loop writes it.
C31_HealthOnlyByMonitor_Claimed ==
    [][(req' # req \/ SEC_MESSAGES' # SEC_MESSAGES)
          => SECONDARY_STATUS' = SECONDARY_STATUS]_vars

\* The first call handled for the secondary and seq of call j.
FirstFor(j) == CHOOSE i \in Handled : SameTarget(i, j) /\ \A k \in Handled : SameTarget(k, j) => i <= k

\* C32: the step that answers a /replicate call as a duplicate leaves the
\* secondary's log as it was, and the payload stored for a seq is the one of
\* the first call handled for that seq, whatever payload later calls carry.
C32_DuplicateChangesNothing ==
    /\ [][(Len(replies') = Len(replies) + 1 /\ replies'[Len(replies')].duplicate)
             => SEC_MESSAGES' = SEC_MESSAGES]_vars
    /\ [](\A j \in Handled :
             HasEntry(SEC_MESSAGES[replies[j].sec], replies[j].seq, replies[FirstFor(j)].msg))

\* C32 witness: secondary 1 stored seq 1 with the payload of the first
\* call; a second call for seq 1 with another payload answered duplicate.
C32_Witness ==
    /\ Len(replies) >= 2
    /\ replies[1].sec = 1 /\ replies[1].seq = 1 /\ replies[1].msg = ClientMsg(1)
    /\ replies[2].sec = 1 /\ replies[2].seq = 1 /\ replies[2].msg = ClientMsg(2)
    /\ replies[2].duplicate /\ replies[2].code = Ok
    /\ SEC_MESSAGES[1] = <<<<1, ClientMsg(1)>>>>

\* C33 (as claimed): when a peer answers a replication call with a status
\* that is not 2xx, on the w = 1 path as on the w > 1 path, the call counts
\* as failed: it is no acknowledgement, and it does not mark the peer
\* healthy, so the peer's failure counter is not reset and its state does
\* not get better.
C33_ErrorResponseIsFailure_Claimed ==
    [][\A t \in Threads : \A s \in SECONDARIES :
          (req[t].task[s] = "running" /\ req'[t].task[s] = "rejected")
             => /\ s \notin Range(req'[t].acks)
                /\ SECONDARY_STATUS'[s].failures >= SECONDARY_STATUS[s].failures
                /\ Severity(SECONDARY_STATUS'[s].status)
                      >= Severity(SECONDARY_STATUS[s].status)]_vars

C35_AckImpliesStored ==
    \A t \in Succeeded : \A s \in Range(req[t].acks) :
        HasEntry(SEC_MESSAGES[s], req[t].seq, req[t].msg)

\* C35 witness: a write with w = 2 answered 201 with the acknowledgement of
\* secondary 1, which holds its entry, while secondary 2 holds nothing.
C35_Witness ==
    \E t \in Succeeded :
        /\ req[t].w = 2 /\ req[t].acks = <<1>>
        /\ SEC_MESSAGES[1] = <<<<req[t].seq, req[t].msg>>>>
        /\ SEC_MESSAGES[2] = <<>>

\* C36: with the master as the only caller of /replicate, every entry a
\* secondary stores is an entry of the master log, seq and payload, and its
\* seq is one the master has assigned.
C36_PayloadAgreement ==
    \A s \in SECONDARIES : \A i \in 1..Len(SEC_MESSAGES[s]) :
        /\ SEC_MESSAGES[s][i] \in Range(MESSAGES)
        /\ SEC_MESSAGES[s][i][1] \in 1..SEQ_COUNTER

\* C36 witness: the master log holds two entries; secondary 1 stores both
\* and secondary 2 stores the second one only.
C36_Witness ==
    /\ Len(MESSAGES) = 2
    /\ Range(SEC_MESSAGES[1]) = Range(MESSAGES)
    /\ StoredSeqs(SEC_MESSAGES[2]) = {2}

\* C37: for every thresholds S, U >= 1 and in every state, a HEALTHY peer
\* has fewer than S failures, a SUSPECTED peer at least S, an UNHEALTHY peer
\* at least U; and the update that makes a peer UNHEALTHY finds it
\* SUSPECTED, never HEALTHY.
C37_HealthRecordInvariant ==
    /\ \A s \in SECONDARIES :
          LET info == SECONDARY_STATUS[s]
          IN /\ info.status = HEALTHY => info.failures < SUSPECT_THRESH
             /\ info.status = SUSPECTED => info.failures >= SUSPECT_THRESH
             /\ info.status = UNHEALTHY => info.failures >= UNHEALTHY_THRESH
    /\ (probe.kind = "heartbeat" /\ probe.after.status = UNHEALTHY
                                 /\ probe.before.status # UNHEALTHY)
          => probe.before.status = SUSPECTED

\* C37 witness: with S = 3 and U = 1 a peer stayed HEALTHY through two
\* failures, was SUSPECTED at the third and became UNHEALTHY at the fourth.
C37_Witness ==
    /\ SUSPECT_THRESH = 3 /\ UNHEALTHY_THRESH = 1
    /\ probe.kind = "heartbeat"
    /\ probe.before = [status |-> SUSPECTED, failures |-> 3]
    /\ probe.after = [status |-> UNHEALTHY, failures |-> 4]

\* C38 (as claimed): a write with w > 1 calls every peer it counted as
\* available at validation; when it is answered 502, none of these peers
\* was skipped without a call.
C38_SnapshotPeersContacted_Claimed ==
    \A t \in Threads :
        req[t].code = BadGateway
           => \A s \in req[t].avail : req[t].task[s] \in {"acked", "unreachable", "rejected"}

====
